---- MODULE Spec2Model ----
(***************************************************************************)
(* Model of slo-generator's core: SLOReport construction (report.py),      *)
(* compute() and export() (compute.py), and the compute command (cli.py)   *)
(* with the look-ups of the shared config (utils.py).                      *)
(*                                                                         *)
(* Numbers.  Python floats are modelled as scaled integers:                *)
(*   - event counts are held in units of 1/CountUnit (so 0.5 is 1),        *)
(*   - a scalar SLI returned by a backend is held in units of 1/ScalarUnit,*)
(*   - sli_measurement, goal, gap and the error-budget ratios are held in  *)
(*     units of 1/SliUnit (six decimals, the precision round(x, 6) keeps), *)
(*   - burn rate and its threshold are held in units of 1/BurnUnit (one    *)
(*     decimal, the precision round(x, 1) keeps).                          *)
(* round() is modelled as exact round-half-to-even on these rationals.     *)
(***************************************************************************)
EXTENDS Integers, Sequences, FiniteSets, TLC

VARIABLES
    cfg,            \* inputs of the run: configuration, flags, environment
    pc,             \* position of the running function
    self,           \* the SLOReport object under construction
    data,           \* backend result held by SLOReport.__init__
    stepidx,        \* compute: index of the next error budget policy step
    reports,        \* compute: list of json reports to return
    badevents,      \* compute: dict window key -> bad events count
    reportswindow,  \* compute: ordered dict window key -> report (by index)
    reportswindowname, \* compute: dict window key -> window name
    cursor,         \* compute: position in reportswindow.items()
    calls,          \* backend method invocations made so far
    exported,       \* exporter invocations made so far
    result,         \* export: value returned (or exception raised)
    all_reports,    \* cli: dict SLO name -> reports returned by compute
    runs,           \* cli: the calls of compute completed so far
    DEFAULT_METRIC_LABELS, \* exporters/base.py: module-level list
    DEFAULT_METRICS,       \* exporters/base.py: module-level list of dicts
    shared_config   \* migrator: one section of the shared config

\* the state outside a run of compute: the module-level lists of
\* exporters/base.py and the shared config under migration
modvars == <<DEFAULT_METRIC_LABELS, DEFAULT_METRICS, shared_config>>

vars == <<cfg, pc, self, data, stepidx, reports, badevents, reportswindow,
          reportswindowname, cursor, calls, exported, result, all_reports,
          runs, DEFAULT_METRIC_LABELS, DEFAULT_METRICS, shared_config>>

\* exporters/base.py lines 25-31, as the module is loaded
DefaultMetricLabels ==
    <<"error_budget_policy_step_name", "service_name", "feature_name",
      "slo_name", "metadata">>

\* exporters/base.py lines 34-60, as the module is loaded; a metric name is
\* the sequence of the parts of its string
DefaultMetrics ==
    <<[name |-> <<"error_budget_burn_rate">>,
       description |-> "Speed at which the error budget is consumed.",
       labels |-> DefaultMetricLabels],
      [name |-> <<"alerting_burn_rate_threshold">>,
       description |-> "Error Budget burn rate threshold.",
       labels |-> DefaultMetricLabels],
      [name |-> <<"events_count">>,
       description |-> "Number of events",
       labels |-> DefaultMetricLabels
                      \o <<"good_events_count", "bad_events_count">>],
      [name |-> <<"sli_measurement">>,
       description |-> "Service Level Indicator.",
       labels |-> DefaultMetricLabels],
      [name |-> <<"slo_target">>,
       description |-> "Service Level Objective target.",
       labels |-> DefaultMetricLabels]>>

\* the modules are loaded and no shared config is under migration
ModulesLoaded ==
    /\ DEFAULT_METRIC_LABELS = DefaultMetricLabels
    /\ DEFAULT_METRICS = DefaultMetrics
    /\ shared_config = <<>>

----------------------------------------------------------------------------
(* Bounds of the model *)

MaxSteps == 3
MaxWindow == 2
MaxMinValidEvents == 2
MaxExporters == 3
MaxCount == 3
MaxSloConfigs == 3
MaxExports == 3
MaxBuckets == 2
MaxAdds == 3
MaxSuffix == 2

----------------------------------------------------------------------------
(* Units and program constants *)

CountUnit == 2
ScalarUnit == 10000000
SliUnit == 1000000
BurnUnit == 10

\* constants.py: NO_DATA = -1
NO_DATA == -1

\* NO_DATA as an event count and as a scalar SLI
NO_DATA_COUNT == NO_DATA * CountUnit
NO_DATA_SCALAR == NO_DATA * ScalarUnit

\* constants.py: V2_EXPORTERS
V2_EXPORTERS == {"Pubsub", "Cloudevent"}

----------------------------------------------------------------------------
(* Arithmetic helpers *)

Abs(n) == IF n < 0 THEN -n ELSE n

\* Python int(x) on a float: truncation toward zero.  n / unit.
Trunc(n, unit) == IF n >= 0 THEN n \div unit ELSE -((-n) \div unit)

\* Python round(): n / d rounded to the nearest integer, ties to even.
\* d # 0.
RoundHalfEven(n, d) ==
    LET nn == IF d < 0 THEN -n ELSE n
        dd == Abs(d)
        q == nn \div dd
        r == nn - q * dd
    IN  IF 2 * r < dd THEN q
        ELSE IF 2 * r > dd THEN q + 1
        ELSE IF q % 2 = 0 THEN q ELSE q + 1

----------------------------------------------------------------------------
(* utils.fmt_traceback *)

fmt_traceback(exc) == exc.cls \o ": " \o exc.msg

----------------------------------------------------------------------------
(* Backend results *)

Num(v) == [t |-> "num", v |-> v]
NoneElem == [t |-> "none"]
StrElem == [t |-> "str"]

DataNone == [kind |-> "none"]
DataObj(type) == [kind |-> "obj", type |-> type]
DataTuple(items) == [kind |-> "tuple", items |-> items]
DataPair(good, bad) == DataTuple(<<Num(good * CountUnit), Num(bad * CountUnit)>>)
DataNum(v) == [kind |-> "num", v |-> v]

Returned(d) == [out |-> "return", data |-> d]
Raised(cls, msg) == [out |-> "raise", exc |-> [cls |-> cls, msg |-> msg]]

----------------------------------------------------------------------------
(* SLOReport (report.py) *)

\* the error strings of _validate and _post_validate
ErrWrongType == "Backend method returned an object of a wrong type."
ErrTupleLen == "Backend method returned a tuple with a wrong number of items."
ErrElemType == "Backend method returned a tuple with some elements having a type different than float or int"
ErrPairNoData == "Backend method returned a valid tuple but the good and bad count is NO_DATA (-1)."
ErrNotEnough == "Not enough valid events found."
ErrNoData == "Backend returned NO_DATA (-1)."
ErrNone == "Backend returned None."
ErrSliRange == "SLI is not between 0 and 1"
MsgMissed == "Missed for this measurement window, but not enough to alert"

\* __set_fields: set the given fields on the object, keep the others
set_fields(obj, kwargs) ==
    [f \in (DOMAIN obj) \cup (DOMAIN kwargs) |->
        IF f \in DOMAIN kwargs THEN kwargs[f] ELSE obj[f]]

\* the report starting with the errors list of the report built before it
NewReport_shared_errors(goal, step) ==
    [metadata |-> [name |-> "slo"],
     name |-> "slo",
     goal |-> goal,
     window |-> step.window,
     error_budget_policy_step_name |-> step.name,
     error_budget_burn_rate_threshold |-> step.burn_rate_threshold,
     valid |-> TRUE,
     errors |-> IF runs # <<>> /\ runs[Len(runs)].reports # <<>>
                THEN runs[Len(runs)].reports[1].errors
                ELSE <<>>,
     error_budget_policy |-> "default",
     sli_measurement |-> 0,
     events_count |-> 0,
     bad_events_count |-> 0,
     good_events_count |-> 0]

\* SLOReport.__init__, lines 92-113: fields set before the backend is run
NewReport(goal, step) ==
    [metadata |-> [name |-> "slo"],
     name |-> "slo",
     goal |-> goal,
     window |-> step.window,
     error_budget_policy_step_name |-> step.name,
     error_budget_burn_rate_threshold |-> step.burn_rate_threshold,
     valid |-> TRUE,
     errors |-> <<>>,
     \* defaults of the dataclass fields, lines 76-83
     error_budget_policy |-> "default",
     sli_measurement |-> 0,
     events_count |-> 0,
     bad_events_count |-> 0,
     good_events_count |-> 0]

\* run_backend calling the backend method again after it raised
run_backend_retry(obj, cls_loaded, has_delete, delete, outcome) ==
    IF ~cls_loaded
    THEN [obj |-> [obj EXCEPT !.valid = FALSE], data |-> DataNone,
          called |-> <<>>]
    ELSE LET method == IF delete /\ has_delete THEN "delete" ELSE "measure"
         IN  IF outcome.out = "raise"
             THEN [obj |-> [obj EXCEPT !.errors =
                                Append(@, fmt_traceback(outcome.exc))],
                   data |-> DataNone, called |-> <<method, method>>]
             ELSE [obj |-> obj, data |-> outcome.data, called |-> <<method>>]

\* run_backend swallowing the exception without recording it
run_backend_silent(obj, cls_loaded, has_delete, delete, outcome) ==
    IF ~cls_loaded
    THEN [obj |-> [obj EXCEPT !.valid = FALSE], data |-> DataNone,
          called |-> <<>>]
    ELSE LET method == IF delete /\ has_delete THEN "delete" ELSE "measure"
         IN  IF outcome.out = "raise"
             THEN [obj |-> obj, data |-> DataNone, called |-> <<method>>]
             ELSE [obj |-> obj, data |-> outcome.data, called |-> <<method>>]

\* SLOReport.run_backend: the object after the call, the data returned and
\* the backend method invoked (if any).
run_backend(obj, cls_loaded, has_delete, delete, outcome) ==
    IF ~cls_loaded
    THEN [obj |-> [obj EXCEPT !.valid = FALSE], data |-> DataNone,
          called |-> <<>>]
    ELSE LET method == IF delete /\ has_delete THEN "delete" ELSE "measure"
         IN  IF outcome.out = "raise"
             THEN [obj |-> [obj EXCEPT !.errors =
                                Append(@, fmt_traceback(outcome.exc))],
                   data |-> DataNone, called |-> <<method>>]
             ELSE [obj |-> obj, data |-> outcome.data, called |-> <<method>>]

\* SLOReport._validate: result and the errors appended
validate(d, min_valid_events) ==
    IF d.kind = "none" THEN [ok |-> FALSE, errors |-> <<>>]
    ELSE IF d.kind = "obj" THEN [ok |-> FALSE, errors |-> <<ErrWrongType>>]
    ELSE IF d.kind = "tuple" THEN
        IF Len(d.items) # 2
        THEN [ok |-> FALSE, errors |-> <<ErrTupleLen>>]
        ELSE IF \E n \in 1..2 : d.items[n].t # "num"
        THEN [ok |-> FALSE, errors |-> <<ErrElemType>>]
        ELSE LET good == d.items[1].v
                 bad == d.items[2].v
             IN  IF good = NO_DATA_COUNT /\ bad = NO_DATA_COUNT
                 THEN [ok |-> FALSE, errors |-> <<ErrPairNoData>>]
                 ELSE IF good + bad < min_valid_events * CountUnit
                 THEN [ok |-> FALSE, errors |-> <<ErrNotEnough>>]
                 ELSE [ok |-> TRUE, errors |-> <<>>]
    ELSE IF d.v = NO_DATA_SCALAR THEN [ok |-> FALSE, errors |-> <<ErrNoData>>]
    ELSE [ok |-> TRUE, errors |-> <<>>]

\* get_sli returning the counts of the pair as the backend gave them
get_sli_as_given(d) ==
    IF d.kind = "tuple"
    THEN LET good_count == IF d.items[1].v = NO_DATA_COUNT THEN 0
                           ELSE d.items[1].v
             bad_count == IF d.items[2].v = NO_DATA_COUNT THEN 0
                          ELSE d.items[2].v
         IN  IF good_count + bad_count = 0
             THEN [raised |-> TRUE]
             ELSE [raised |-> FALSE,
                   sli |-> RoundHalfEven(good_count * SliUnit,
                                         good_count + bad_count),
                   good_count |-> d.items[1].v,
                   bad_count |-> d.items[2].v]
    ELSE [raised |-> FALSE,
          sli |-> RoundHalfEven(d.v, ScalarUnit \div SliUnit),
          good_count |-> NO_DATA_COUNT,
          bad_count |-> NO_DATA_COUNT]

\* SLOReport.get_sli: raised is the ZeroDivisionError of good / (good + bad)
get_sli(d) ==
    IF d.kind = "tuple"
    THEN LET good_count == IF d.items[1].v = NO_DATA_COUNT THEN 0
                           ELSE d.items[1].v
             bad_count == IF d.items[2].v = NO_DATA_COUNT THEN 0
                          ELSE d.items[2].v
         IN  IF good_count + bad_count = 0
             THEN [raised |-> TRUE]
             ELSE [raised |-> FALSE,
                   sli |-> RoundHalfEven(good_count * SliUnit,
                                         good_count + bad_count),
                   good_count |-> good_count,
                   bad_count |-> bad_count]
    ELSE [raised |-> FALSE,
          sli |-> RoundHalfEven(d.v, ScalarUnit \div SliUnit),
          good_count |-> NO_DATA_COUNT,
          bad_count |-> NO_DATA_COUNT]

\* the alert decision taken with >= in place of >
IsAlert_ge(eb_burn_rate, threshold) == eb_burn_rate >= threshold

\* the alert decision of SLOReport.build, line 156
IsAlert(eb_burn_rate, threshold) == eb_burn_rate > threshold

\* the within-budget message chosen below 1 only
ConsequenceMessage_below_one(alert, eb_burn_rate, step) ==
    IF alert THEN step.message_alert
    ELSE IF eb_burn_rate < 1 * BurnUnit THEN step.message_ok
    ELSE MsgMissed

\* lines 158-166 of SLOReport.build: the consequence message
ConsequenceMessage(alert, eb_burn_rate, step) ==
    IF alert THEN step.message_alert
    ELSE IF eb_burn_rate <= 1 * BurnUnit THEN step.message_ok
    ELSE MsgMissed

\* SLOReport.build, given the result of get_sli
build(obj, step, s) ==
    LET sli == s.sli
        gap == sli - obj.goal
        eb_target == SliUnit - obj.goal
        eb_value == SliUnit - sli
        eb_burn_rate == IF eb_target = 0 THEN 0
                        ELSE RoundHalfEven(eb_value * BurnUnit, eb_target)
        alert == IsAlert(eb_burn_rate, obj.error_budget_burn_rate_threshold)
        consequence_message == ConsequenceMessage(alert, eb_burn_rate, step)
    IN  set_fields(obj,
            [sli_measurement |-> sli,
             good_events_count |-> Trunc(s.good_count, CountUnit),
             bad_events_count |-> Trunc(s.bad_count, CountUnit),
             events_count |-> Trunc(s.good_count + s.bad_count, CountUnit),
             gap |-> gap,
             error_budget_target |-> eb_target,
             error_budget_measurement |-> eb_value,
             error_budget_burn_rate |-> eb_burn_rate,
             \* the three durations are kept as numerators over 60 * SliUnit
             error_budget_remaining_minutes |-> obj.window * gap,
             error_budget_minutes |-> obj.window * eb_target,
             error_minutes |-> obj.window * eb_value,
             alert |-> alert,
             consequence_message |-> consequence_message])

\* _post_validate checking the upper end of the range only
post_validate_upper(obj) ==
    IF ~(obj.sli_measurement <= SliUnit)
    THEN [ok |-> FALSE, errors |-> <<ErrSliRange>>]
    ELSE [ok |-> TRUE, errors |-> <<>>]

\* SLOReport._post_validate
post_validate(obj) ==
    IF ~(0 <= obj.sli_measurement /\ obj.sli_measurement <= SliUnit)
    THEN [ok |-> FALSE, errors |-> <<ErrSliRange>>]
    ELSE [ok |-> TRUE, errors |-> <<>>]

\* SLOReport.__init__ as a whole: the constructed object, the stage it ended
\* in, or raised when an exception left the constructor.
SLOReport(goal, min_valid_events, cls_loaded, has_delete, step, delete, outcome) ==
    LET rb == run_backend(NewReport(goal, step), cls_loaded, has_delete,
                          delete, outcome)
        v == validate(rb.data, min_valid_events)
        s == get_sli(rb.data)
        built == build(rb.obj, step, s)
        pv == post_validate(built)
    IN  IF ~v.ok
        THEN [raised |-> FALSE, called |-> rb.called, stage |-> "Invalid",
              obj |-> [rb.obj EXCEPT !.valid = FALSE,
                                     !.errors = @ \o v.errors]]
        ELSE IF s.raised
        THEN [raised |-> TRUE, called |-> rb.called, stage |-> "Raised",
              obj |-> rb.obj]
        ELSE IF ~pv.ok
        THEN [raised |-> FALSE, called |-> rb.called, stage |-> "PostInvalid",
              obj |-> [built EXCEPT !.valid = FALSE,
                                    !.errors = @ \o pv.errors]]
        ELSE [raised |-> FALSE, called |-> rb.called, stage |-> "Ready",
              obj |-> built]

\* to_json serialising every field whether or not the report is valid
to_json_asdict(obj) == obj

\* SLOReport.to_json
to_json(obj) ==
    IF ~obj.valid
    THEN [metadata |-> obj.metadata,
          errors |-> obj.errors,
          error_budget_policy_step_name |-> obj.error_budget_policy_step_name,
          valid |-> obj.valid]
    ELSE obj

----------------------------------------------------------------------------
(* Inputs *)

\* goals: 0.5, 0.9 and 1
Goals == {SliUnit \div 2, (9 * SliUnit) \div 10, SliUnit}

\* burn rate thresholds: 0, 1 and 2
Thresholds == {0, BurnUnit, 2 * BurnUnit}

Step(i, window, threshold) ==
    [name |-> "step" \o ToString(i),
     window |-> window,
     burn_rate_threshold |-> threshold,
     message_alert |-> "alert" \o ToString(i),
     message_ok |-> "ok" \o ToString(i)]

\* event counts a backend may return, in units of 1/CountUnit: the integers
\* and halves from -2 to MaxCount (NO_DATA is among them)
CountValues == (-2 * CountUnit) .. (MaxCount * CountUnit)

\* scalar SLI values a backend may return, in units of 1/ScalarUnit:
\* NO_DATA, values around 0 and 1 that round(x, 6) moves, 0.5 and 1.5
ScalarValues ==
    {NO_DATA_SCALAR, -6, -4, 0, ScalarUnit \div 2, ScalarUnit - 4,
     ScalarUnit, ScalarUnit + 4, ScalarUnit + 6, ScalarUnit + ScalarUnit \div 2}

\* what a backend method call may do
BackendOutcomes ==
    {Raised("ValueError", "Oops !"),
     Returned(DataNone),
     Returned(DataObj("str")),
     Returned(DataObj("dict")),
     Returned(DataTuple(<<>>)),
     Returned(DataTuple(<<Num(CountUnit)>>)),
     Returned(DataTuple(<<Num(CountUnit), Num(CountUnit), Num(CountUnit)>>)),
     Returned(DataTuple(<<NoneElem, NoneElem>>)),
     Returned(DataTuple(<<Num(CountUnit), StrElem>>))}
    \cup {Returned(DataTuple(<<Num(g), Num(b)>>)) :
            g \in CountValues, b \in CountValues}
    \cup {Returned(DataNum(v)) : v \in ScalarValues}

----------------------------------------------------------------------------
(* SpecReport: the construction of one SLOReport, stage by stage *)

InitReport ==
    /\ \E goal \in Goals, m \in 0..MaxMinValidEvents, th \in Thresholds,
          w \in 1..MaxWindow, loaded \in BOOLEAN, del \in BOOLEAN,
          hasdel \in BOOLEAN :
            cfg = [goal |-> goal,
                   min_valid_events |-> m,
                   cls_loaded |-> loaded,
                   has_delete |-> hasdel,
                   delete |-> del,
                   do_export |-> FALSE,
                   has_labels |-> TRUE,
                   steps |-> <<Step(1, w, th)>>,
                   exporters |-> <<>>]
    /\ pc = "Pending"
    /\ self = NewReport(cfg.goal, cfg.steps[1])
    /\ data = DataNone
    /\ stepidx = 1
    /\ reports = <<>>
    /\ badevents = <<>>
    /\ reportswindow = <<>>
    /\ reportswindowname = <<>>
    /\ cursor = 1
    /\ calls = <<>>
    /\ exported = <<>>
    /\ result = <<>>
    /\ all_reports = <<>>
    /\ runs = <<>>
    /\ ModulesLoaded

\* __init__ line 116: data = self.run_backend(...)
RunBackend ==
    /\ pc = "Pending"
    /\ \E outcome \in BackendOutcomes :
        LET rb == run_backend(self, cfg.cls_loaded, cfg.has_delete,
                              cfg.delete, outcome)
        IN  /\ self' = rb.obj
            /\ data' = rb.data
            /\ calls' = calls \o
                  [n \in 1..Len(rb.called) |->
                      [step |-> 1, method |-> rb.called[n],
                       outcome |-> outcome]]
    /\ pc' = "Fetched"
    /\ UNCHANGED <<modvars, all_reports, runs, cfg, stepidx, reports, badevents, reportswindow,
                   reportswindowname, cursor, exported, result>>

\* __init__ lines 117-119: if not self._validate(data): valid = False; return
Validate ==
    /\ pc = "Fetched"
    /\ LET v == validate(data, cfg.min_valid_events)
       IN  IF v.ok
           THEN /\ pc' = "Validated"
                /\ self' = self
           ELSE /\ pc' = "Invalid"
                /\ self' = [self EXCEPT !.valid = FALSE,
                                        !.errors = @ \o v.errors]
    /\ UNCHANGED <<modvars, all_reports, runs, cfg, data, stepidx, reports, badevents, reportswindow,
                   reportswindowname, cursor, calls, exported, result>>

\* __init__ line 122: self.build(step, data)
Build ==
    /\ pc = "Validated"
    /\ LET s == get_sli(data)
       IN  IF s.raised
           THEN /\ pc' = "Raised"
                /\ self' = self
           ELSE /\ pc' = "Built"
                /\ self' = build(self, cfg.steps[1], s)
    /\ UNCHANGED <<modvars, all_reports, runs, cfg, data, stepidx, reports, badevents, reportswindow,
                   reportswindowname, cursor, calls, exported, result>>

\* __init__ lines 125-126: if not self._post_validate(): valid = False
PostValidate ==
    /\ pc = "Built"
    /\ LET pv == post_validate(self)
       IN  IF pv.ok
           THEN /\ pc' = "Ready"
                /\ self' = self
           ELSE /\ pc' = "PostInvalid"
                /\ self' = [self EXCEPT !.valid = FALSE,
                                        !.errors = @ \o pv.errors]
    /\ UNCHANGED <<modvars, all_reports, runs, cfg, data, stepidx, reports, badevents, reportswindow,
                   reportswindowname, cursor, calls, exported, result>>

NextReport == RunBackend \/ Validate \/ Build \/ PostValidate

SpecReport == InitReport /\ [][NextReport]_vars

----------------------------------------------------------------------------
(* export (compute.py) *)

ErrNoExporters == "No exporters were found."
ImportError == [cls |-> "ImportError", msg |-> "Exporter not found in shared config."]
ExporterError == [cls |-> "ValueError", msg |-> "Oops !"]

\* line 191: f'{cls}Exporter "{name}" failed. | {tbk}'
ExportErrorText(exporter, exc) ==
    exporter.class \o "Exporter " \o exporter.name \o " failed. | "
        \o fmt_traceback(exc)

\* lines 179-182: the format of the report handed to the exporter
ExportFormat(exporter) ==
    IF exporter.class \notin V2_EXPORTERS THEN "v1" ELSE "v2"

\* the exception of a failing exporter never leaving export
Reraise_never(raise_on_error) == FALSE

\* the exception of a failing exporter always leaving export
Reraise_always(raise_on_error) == TRUE

\* lines 188-189: whether the exception of a failing exporter leaves export
Reraise(raise_on_error) == raise_on_error

\* lines 168-194: the loop over the exporters, from exporter n on.
\* outcomes[n] is what the n-th exporter's export method does when called.
\* acc.attempts lists the exporters tried, in order, and whether their
\* export method was called.
RECURSIVE export_loop(_, _, _, _, _)
export_loop(exporters, outcomes, raise_on_error, n, acc) ==
    IF n > Len(exporters) THEN acc
    ELSE LET exporter == exporters[n]
             called == exporter.loadable
             exc == IF ~exporter.loadable THEN ImportError
                    ELSE ExporterError
             failed == ~exporter.loadable \/ outcomes[n] = "raise"
             attempt == [exporter |-> n, called |-> called,
                         format |-> ExportFormat(exporter)]
             acc1 == [acc EXCEPT !.attempts = Append(@, attempt)]
         IN  IF ~failed
             THEN export_loop(exporters, outcomes, raise_on_error, n + 1, acc1)
             ELSE IF Reraise(raise_on_error)
             THEN [acc1 EXCEPT !.raised = <<exc>>]
             ELSE export_loop(exporters, outcomes, raise_on_error, n + 1,
                      [acc1 EXCEPT !.errors =
                          Append(@, ExportErrorText(exporter, exc))])

\* export(data, exporters, raise_on_error): the errors returned, the
\* exception raised (if any) and the exporters tried.  arg is the exporters
\* argument: a list, or a single exporter passed as a dict.
export(arg, outcomes, raise_on_error) ==
    LET exporters == IF arg.kind = "dict" THEN <<arg.value>> ELSE arg.value
        errors == IF Len(exporters) = 0 THEN <<ErrNoExporters>> ELSE <<>>
    IN  export_loop(exporters, outcomes, raise_on_error, 1,
                    [errors |-> errors, raised |-> <<>>, attempts |-> <<>>])

ExporterList(l) == [kind |-> "list", value |-> l]
ExporterDict(e) == [kind |-> "dict", value |-> e]

\* what the export method of each of n exporters may do
ExportOutcomes(n) == [1..n -> {"ok", "raise"}]

----------------------------------------------------------------------------
(* compute (compute.py) *)

\* SLOReport.get_window, get_badeventscount, get_windowname: called by
\* compute
get_window(obj) == obj.window
get_badeventscount(obj) == obj.bad_events_count
get_windowname(obj) == obj.error_budget_policy_step_name

\* the report of an invalid step left out of reports
InReturned_no_invalid(valid, delete) == valid /\ ~delete

\* lines 88-94 and 106: whether the step's report is appended to reports
InReturned(valid, delete) == ~valid \/ ~delete

\* the report indexed whether or not it is valid
Indexed_any(valid, delete) == ~delete

\* the valid report indexed whether or not the run is a delete
Indexed_in_delete(valid, delete) == valid

\* lines 88-103: whether the step's report is indexed for the consistency
\* check and the export
Indexed(valid, delete) == valid /\ ~delete

\* lines 98-99: while window in badevents: window = window + 1
RECURSIVE BumpWindow(_, _)
BumpWindow(window, keys) ==
    IF window \in keys THEN BumpWindow(window + 1, keys) ELSE window

\* sorted(badevents)
RECURSIVE Sorted(_)
Sorted(S) ==
    IF S = {} THEN <<>>
    ELSE LET m == CHOOSE x \in S : \A y \in S : x <= y
         IN  <<m>> \o Sorted(S \ {m})

\* del reportswindow[k]
DelKey(rw, k) == SelectSeq(rw, LAMBDA e : e.key # k)

\* the report of the larger window leaving the export batch
DropTarget_larger(lastkey, key) == key

\* line 127: the key whose report leaves the export batch
DropTarget(lastkey, key) == lastkey

\* lines 108-129: the consistency check; raised is the KeyError of
\* reportswindow[key]["metadata"]["labels"] on a config without labels
RECURSIVE check_loop(_, _, _, _, _, _, _)
check_loop(bad, has_labels, keys, n, lastbad, lastkey, rw) ==
    IF n > Len(keys) THEN [raised |-> FALSE, rw |-> rw]
    ELSE LET key == keys[n]
         IN  IF lastbad < 0
             THEN check_loop(bad, has_labels, keys, n + 1, bad[key], key, rw)
             ELSE IF lastbad > bad[key]
             THEN IF ~has_labels
                  THEN [raised |-> TRUE, rw |-> rw]
                  ELSE check_loop(bad, has_labels, keys, n + 1, bad[key], key,
                                  DelKey(rw, DropTarget(lastkey, key)))
             ELSE check_loop(bad, has_labels, keys, n + 1, bad[key], key, rw)

consistency_check(bad, has_labels, rw) ==
    check_loop(bad, has_labels, Sorted(DOMAIN bad), 1, -1, -1, rw)

\* what a backend method call may do, in the runs of compute: raise, (0, 0),
\* (2, 1), (1, 2), the SLI 0.5 and (3, -2), whose SLI is out of range
ComputeOutcomes ==
    {Raised("ValueError", "Oops !"),
     Returned(DataPair(0, 0)),
     Returned(DataPair(2, 1)),
     Returned(DataPair(1, 2)),
     Returned(DataNum(ScalarUnit \div 2)),
     Returned(DataPair(3, -2))}

Exporter(name, class, loadable) ==
    [name |-> name, class |-> class, loadable |-> loadable]

\* the exporter lists of the runs of compute: none, one exporter that
\* succeeds, and an exporter whose class does not load followed by one
\* that raises on every call and one that succeeds
ComputeExporters ==
    {<<>>,
     <<Exporter("pubsub", "Pubsub", TRUE)>>,
     <<Exporter("nope", "Nope", FALSE),
       Exporter("tests.unit.fixtures.fail_exporter.Fail",
                "tests.unit.fixtures.fail_exporter.Fail", TRUE),
       Exporter("bigquery", "Bigquery", TRUE)>>}

\* what the export method of each exporter of a run of compute does
ComputeExportOutcomes(exporters) ==
    [n \in 1..Len(exporters) |->
        IF exporters[n].class = "tests.unit.fixtures.fail_exporter.Fail"
        THEN "raise" ELSE "ok"]

\* the flags and exporters of the runs of compute: <<delete, has_delete,
\* do_export, has_labels, exporters>>.  Exporters are only read when
\* do_export is set, has_delete only when delete is set, and in delete mode
\* no report is indexed, so that neither the labels nor the exporters are
\* read.  The labels are read by the consistency check, before any export,
\* so that their absence is paired with one export setting only.
ComputeModes ==
    {<<FALSE, FALSE, TRUE, TRUE, exporters>> : exporters \in ComputeExporters}
    \cup {<<FALSE, FALSE, FALSE, labels, <<>>>> : labels \in BOOLEAN}
    \cup {<<TRUE, hasdel, TRUE, TRUE, <<Exporter("pubsub", "Pubsub", TRUE)>>>> :
        hasdel \in BOOLEAN}

\* the windows of the steps of an error budget policy of n steps: growing
\* (as in the policies shipped with the program), shrinking, all equal, and
\* growing after a repeated first window (a key bumped after a collision
\* meets the window of a later step), and growing up to a last step that
\* repeats the first window
PolicyWindows(n) ==
    {[i \in 1..n |-> i],
     [i \in 1..n |-> n + 1 - i],
     [i \in 1..n |-> 1],
     [i \in 1..n |-> IF i = 1 THEN 1 ELSE i - 1],
     [i \in 1..n |-> IF i = n THEN 1 ELSE i]}

InitCompute ==
    /\ \E n \in 1..MaxSteps :
       \E windows \in PolicyWindows(n) :
       \E m \in 0..1, loaded \in BOOLEAN, mode \in ComputeModes :
            cfg = [goal |-> (9 * SliUnit) \div 10,
                   min_valid_events |-> m,
                   cls_loaded |-> loaded,
                   delete |-> mode[1],
                   has_delete |-> mode[2],
                   do_export |-> mode[3],
                   has_labels |-> mode[4],
                   steps |-> [i \in 1..n |-> Step(i, windows[i], BurnUnit)],
                   exporters |-> mode[5],
                   backend_outcomes |-> ComputeOutcomes]
    /\ pc = "steps"
    /\ self = <<>>
    /\ data = DataNone
    /\ stepidx = 1
    /\ reports = <<>>
    /\ badevents = <<>>
    /\ reportswindow = <<>>
    /\ reportswindowname = <<>>
    /\ cursor = 1
    /\ calls = <<>>
    /\ exported = <<>>
    /\ result = <<>>
    /\ all_reports = <<>>
    /\ runs = <<>>
    /\ ModulesLoaded

\* lines 73-106: one iteration of the loop over the steps
ComputeStep ==
    /\ pc = "steps"
    /\ stepidx <= Len(cfg.steps)
    /\ \E outcome \in cfg.backend_outcomes :
        LET step == cfg.steps[stepidx]
            r == SLOReport(cfg.goal, cfg.min_valid_events, cfg.cls_loaded,
                           cfg.has_delete, step, cfg.delete, outcome)
            json_report == to_json(r.obj)
            window == BumpWindow(get_window(r.obj), DOMAIN badevents)
        IN  /\ calls' = calls \o
                  [n \in 1..Len(r.called) |->
                      [step |-> stepidx, method |-> r.called[n],
                       outcome |-> outcome]]
            /\ IF r.raised
               THEN /\ pc' = "raised"
                    /\ UNCHANGED <<stepidx, reports, badevents, reportswindow,
                                   reportswindowname>>
               ELSE /\ pc' = pc
                    /\ stepidx' = stepidx + 1
                    /\ reports' = IF InReturned(r.obj.valid, cfg.delete)
                                  THEN Append(reports, json_report)
                                  ELSE reports
                    /\ IF Indexed(r.obj.valid, cfg.delete)
                       THEN /\ reportswindow' = Append(reportswindow,
                                   [key |-> window, idx |-> Len(reports) + 1])
                            /\ badevents' =
                                   [k \in (DOMAIN badevents) \cup {window} |->
                                       IF k = window
                                       THEN get_badeventscount(r.obj)
                                       ELSE badevents[k]]
                            /\ reportswindowname' =
                                   [k \in (DOMAIN badevents) \cup {window} |->
                                       IF k = window
                                       THEN get_windowname(r.obj)
                                       ELSE reportswindowname[k]]
                       ELSE UNCHANGED <<badevents, reportswindow,
                                        reportswindowname>>
    /\ UNCHANGED <<modvars, all_reports, runs, cfg, self, data, cursor, exported, result>>

\* the loop over the steps left after its first iteration
LoopOver_early(idx, steps) == idx > 1

\* line 73: the for loop over the steps is over
LoopOver(idx, steps) == idx > Len(steps)

\* lines 108-129
ConsistencyCheck ==
    /\ pc = "steps"
    /\ LoopOver(stepidx, cfg.steps)
    /\ LET c == consistency_check(badevents, cfg.has_labels, reportswindow)
       IN  IF c.raised
           THEN /\ pc' = "raised"
                /\ UNCHANGED reportswindow
           ELSE /\ pc' = "export"
                /\ reportswindow' = c.rw
    /\ UNCHANGED <<modvars, all_reports, runs, cfg, self, data, stepidx, reports, badevents,
                   reportswindowname, cursor, calls, exported, result>>

\* the reports exported whatever do_export is
ShouldExport_always(do_export) == TRUE

\* line 132: if exporters is not None and do_export is True (exporters is
\* the list get_exporters returned, never None)
ShouldExport(do_export) == do_export = TRUE

\* lines 131-134: one iteration of the loop over reportswindow.items()
ExportReport ==
    /\ pc = "export"
    /\ cursor <= Len(reportswindow)
    /\ cursor' = cursor + 1
    /\ LET idx == reportswindow[cursor].idx
       IN  IF ShouldExport(cfg.do_export)
           THEN LET res == export(ExporterList(cfg.exporters),
                                  ComputeExportOutcomes(cfg.exporters), FALSE)
                IN  /\ reports' = [reports EXCEPT ![idx].errors =
                                       @ \o res.errors]
                    /\ exported' = exported \o
                          [n \in 1..Len(res.attempts) |->
                              [report |-> idx,
                               valid |-> reports[idx].valid,
                               exporter |-> res.attempts[n].exporter,
                               called |-> res.attempts[n].called]]
           ELSE UNCHANGED <<reports, exported>>
    /\ UNCHANGED <<modvars, all_reports, runs, cfg, pc, self, data, stepidx, badevents, reportswindow,
                   reportswindowname, calls, result>>

\* line 140: return reports
Return ==
    /\ pc = "export"
    /\ cursor > Len(reportswindow)
    /\ pc' = "done"
    /\ result' = reports
    /\ UNCHANGED <<modvars, all_reports, runs, cfg, self, data, stepidx, reports, badevents,
                   reportswindow, reportswindowname, cursor, calls, exported>>

NextCompute == ComputeStep \/ ConsistencyCheck \/ ExportReport \/ Return

SpecCompute == InitCompute /\ [][NextCompute]_vars

----------------------------------------------------------------------------
(* SpecExport: one call of export *)

\* the exporter configurations of the calls of export: two exporters whose
\* class loads (one takes v2 reports) and one whose class does not
ExporterKinds == {<<"Pubsub", TRUE>>, <<"Bigquery", TRUE>>, <<"Nope", FALSE>>}

ExporterLists ==
    UNION {[1..n -> ExporterKinds] : n \in 0..MaxExporters}

MakeExporters(kinds) ==
    [n \in 1..Len(kinds) |->
        Exporter("e" \o ToString(n), kinds[n][1], kinds[n][2])]

InitExport ==
    /\ \E raise_on_error \in BOOLEAN :
       \E arg \in {ExporterList(MakeExporters(l)) : l \in ExporterLists}
                  \cup {ExporterDict(Exporter("e1", k[1], k[2])) :
                            k \in ExporterKinds} :
            cfg = [exporters |-> arg, raise_on_error |-> raise_on_error]
    /\ pc = "export"
    /\ self = <<>>
    /\ data = DataNone
    /\ stepidx = 1
    /\ reports = <<>>
    /\ badevents = <<>>
    /\ reportswindow = <<>>
    /\ reportswindowname = <<>>
    /\ cursor = 1
    /\ calls = <<>>
    /\ exported = <<>>
    /\ result = <<>>
    /\ all_reports = <<>>
    /\ runs = <<>>
    /\ ModulesLoaded

\* lines 143-195: export(data, exporters, raise_on_error)
Export ==
    /\ pc = "export"
    /\ LET n == IF cfg.exporters.kind = "dict" THEN 1
                ELSE Len(cfg.exporters.value)
       IN  \E outcomes \in ExportOutcomes(n) :
             LET res == export(cfg.exporters, outcomes, cfg.raise_on_error)
             IN  /\ result' = [res EXCEPT !.attempts = <<>>] @@
                              [outcomes |-> outcomes]
                 /\ exported' = res.attempts
                 /\ pc' = IF res.raised # <<>> THEN "raised" ELSE "done"
    /\ UNCHANGED <<modvars, all_reports, runs, cfg, self, data, stepidx, reports, badevents,
                   reportswindow, reportswindowname, cursor, calls>>

NextExport == Export

SpecExport == InitExport /\ [][NextExport]_vars

----------------------------------------------------------------------------
(* The compute command (cli.py) and the set-up of compute (compute.py) *)

\* the entries of a sequence
Range(seq) == {seq[n] : n \in 1..Len(seq)}

\* the class named by the key of a backend or exporter of the shared config:
\* capitalize(snake_to_caml(key)) for a core class, the key itself for a
\* custom one (a dotted path)
ClassName(key) ==
    CASE key = "pubsub" -> "Pubsub"
      [] key = "bigquery" -> "Bigquery"
      [] key = "cloud_monitoring" -> "CloudMonitoring"
      [] OTHER -> key

\* utils.get_exporters: the configurations of the exporters the SLO config
\* names, those absent from the shared config left out (lines 240-242)
get_exporters(config, spec_exporters) ==
    LET known == SelectSeq(spec_exporters,
                           LAMBDA e : e \in DOMAIN config.exporters)
    IN  [n \in 1..Len(known) |->
            set_fields(config.exporters[known[n]],
                       [name |-> known[n], class |-> ClassName(known[n])])]

\* utils.get_exporters, lines 243-248: the shared config after the call,
\* name and class written into the entries of the exporters named
ExportersNamed(config, spec_exporters) ==
    [config EXCEPT !.exporters =
        [k \in DOMAIN @ |->
            IF k \in Range(spec_exporters)
            THEN set_fields(@[k], [name |-> k, class |-> ClassName(k)])
            ELSE @[k]]]

\* utils.get_error_budget_policy: sys.exit(0) when the policy is absent
get_error_budget_policy(config, spec_ebp) ==
    IF spec_ebp \notin DOMAIN config.error_budget_policies
    THEN [exit |-> TRUE]
    ELSE [exit |-> FALSE, policy |-> config.error_budget_policies[spec_ebp]]

\* utils.get_backend: sys.exit(0) when the backend is absent
get_backend(config, spec_backend) ==
    IF spec_backend \notin DOMAIN config.backends
    THEN [exit |-> TRUE]
    ELSE [exit |-> FALSE,
          backend |-> set_fields(config.backends[spec_backend],
                          [name |-> spec_backend,
                           class |-> ClassName(spec_backend)])]

\* an SLO config
SloConfig(name, backend, exporters, policy) ==
    [metadata |-> [name |-> name],
     spec |-> [backend |-> backend,
               exporters |-> exporters,
               error_budget_policy |-> policy,
               goal |-> (9 * SliUnit) \div 10]]

\* the SLO configs of a run of the command: one that names a backend, an
\* exporter and a policy of the shared config, one whose backend is absent
\* from it, one whose first exporter is absent from it, and one whose error
\* budget policy is absent from it
SloConfigs ==
    {SloConfig("slo-a", "cloud_monitoring", <<"pubsub">>, "default"),
     SloConfig("slo-b", "datadog", <<"pubsub">>, "default"),
     SloConfig("slo-c", "cloud_monitoring", <<"stackdriver", "bigquery">>,
               "default"),
     SloConfig("slo-d", "cloud_monitoring", <<"pubsub">>, "strict")}

\* the shared config: one backend, two exporters, one error budget policy of
\* one step.  loadable tells whether the class of the entry can be imported.
SharedConfig(default_exporters) ==
    [backends |-> [k \in {"cloud_monitoring"} |-> [loadable |-> TRUE]],
     exporters |-> [k \in {"pubsub", "bigquery"} |-> [loadable |-> TRUE]],
     default_exporters |-> default_exporters,
     error_budget_policies |->
        [k \in {"default"} |-> [steps |-> <<Step(1, 1, BurnUnit)>>]]]

\* what the backend method may do in the runs of the command
CliOutcomes ==
    {Raised("ValueError", "Oops !"),
     Returned(DataPair(2, 1)),
     Returned(DataPair(1, 2))}

InitCli ==
    /\ \E n \in 1..MaxSloConfigs :
       \E slo_configs \in [1..n -> SloConfigs] :
       \E do_export \in BOOLEAN,
          default_exporters \in {<<>>, <<"bigquery">>} :
            cfg = [slo_configs |-> slo_configs,
                   config |-> SharedConfig(default_exporters),
                   do_export |-> do_export,
                   delete |-> FALSE,
                   has_delete |-> FALSE,
                   has_labels |-> TRUE,
                   min_valid_events |-> 1,
                   backend_outcomes |-> CliOutcomes,
                   \* set by compute for each SLO config
                   goal |-> 0,
                   cls_loaded |-> FALSE,
                   steps |-> <<>>,
                   exporters |-> <<>>]
    /\ pc = "cli"
    /\ self = <<>>
    /\ data = DataNone
    /\ stepidx = 1
    /\ reports = <<>>
    /\ badevents = <<>>
    /\ reportswindow = <<>>
    /\ reportswindowname = <<>>
    /\ cursor = 1
    /\ calls = <<>>
    /\ exported = <<>>
    /\ result = <<>>
    /\ all_reports = <<>>
    /\ runs = <<>>
    /\ ModulesLoaded

\* the SLO config the command is at
SloConfigAt == cfg.slo_configs[Len(runs) + 1]

\* cli.py lines 110-117 calling compute, and compute.py lines 59-72: exporters,
\* error budget policy and backend of the SLO config are looked up in the
\* shared config, and the collections of the run start empty
ComputeSetup ==
    /\ pc = "cli"
    /\ Len(runs) < Len(cfg.slo_configs)
    /\ LET spec == SloConfigAt.spec
           exporters == get_exporters(cfg.config, spec.exporters)
           config1 == ExportersNamed(cfg.config, spec.exporters)
           default_exporters ==
               get_exporters(config1, config1.default_exporters)
           config2 == ExportersNamed(config1, config1.default_exporters)
           extended == exporters \o
               SelectSeq(default_exporters,
                         LAMBDA x : x \notin Range(exporters))
           error_budget_policy ==
               get_error_budget_policy(config2, spec.error_budget_policy)
           backend == get_backend(config2, spec.backend)
       IN  IF error_budget_policy.exit \/ backend.exit
           THEN /\ pc' = "exit"
                /\ cfg' = [cfg EXCEPT !.config = config2]
           ELSE /\ pc' = "steps"
                /\ cfg' = [cfg EXCEPT
                       !.config = [config2 EXCEPT
                           !.backends[spec.backend] = backend.backend],
                       !.goal = spec.goal,
                       !.cls_loaded = backend.backend.loadable,
                       !.steps = error_budget_policy.policy.steps,
                       !.exporters = extended]
    /\ stepidx' = 1
    /\ reports' = <<>>
    /\ badevents' = <<>>
    /\ reportswindow' = <<>>
    /\ reportswindowname' = <<>>
    /\ cursor' = 1
    /\ calls' = <<>>
    /\ exported' = <<>>
    /\ UNCHANGED <<modvars, self, data, result, all_reports, runs>>

\* cli.py lines 118-120: if reports: all_reports[name] = reports
CliCollect ==
    /\ pc = "done"
    /\ pc' = "cli"
    /\ all_reports' =
           IF result # <<>>
           THEN (SloConfigAt.metadata.name :> result) @@ all_reports
           ELSE all_reports
    /\ runs' = Append(runs, [slo_config |-> SloConfigAt,
                             calls |-> calls,
                             exported |-> exported,
                             reports |-> result])
    /\ UNCHANGED <<modvars, cfg, self, data, stepidx, reports, badevents,
                   reportswindow, reportswindowname, cursor, calls, exported,
                   result>>

\* cli.py line 127: return all_reports
CliReturn ==
    /\ pc = "cli"
    /\ Len(runs) = Len(cfg.slo_configs)
    /\ pc' = "cli_done"
    /\ UNCHANGED <<modvars, cfg, self, data, stepidx, reports, badevents,
                   reportswindow, reportswindowname, cursor, calls, exported,
                   result, all_reports, runs>>

NextCli ==
    \/ ComputeSetup
    \/ ComputeStep
    \/ ConsistencyCheck
    \/ ExportReport
    \/ Return
    \/ CliCollect
    \/ CliReturn

SpecCli == InitCli /\ [][NextCli]_vars

----------------------------------------------------------------------------
(* exporters/base.py: MetricsExporter *)

\* dict.get(key, default)
Get(d, key, default) == IF key \in DOMAIN d THEN d[key] ELSE default

\* dict.update(kwargs), d[key] = value
Update(d, kwargs) ==
    [f \in (DOMAIN d) \cup (DOMAIN kwargs) |->
        IF f \in DOMAIN kwargs THEN kwargs[f] ELSE d[f]]

\* str.startswith, on strings held as the sequence of their parts
StartsWith(s, prefix) ==
    /\ Len(s) >= Len(prefix)
    /\ SubSeq(s, 1, Len(prefix)) = prefix

\* a metric given in the short form, as a string
ShortForm(name) == [str |-> name]

\* line 85: isinstance(metric_cfg, str)
IsStr(metric_cfg) == DOMAIN metric_cfg = {"str"}

\* the class attributes of CloudMonitoringExporter
CloudMonitoringExporter ==
    [METRIC_PREFIX |-> <<"custom.googleapis.com/">>,
     REQUIRED_FIELDS |-> {"project_id"},
     OPTIONAL_FIELDS |-> {}]

\* the fields of a report whose value is a dict, and those whose value is
\* a number
DictFields == {"metadata"}
NumFields == {"good_events_count", "bad_events_count"}

\* the report handed to the exporter
ReportData ==
    [error_budget_burn_rate |-> 5,
     alerting_burn_rate_threshold |-> 10,
     events_count |-> 3,
     sli_measurement |-> 5,
     slo_target |-> 9,
     timestamp |-> 1,
     error_budget_policy_step_name |-> "step1",
     service_name |-> "svc",
     feature_name |-> "feat",
     slo_name |-> "slo",
     metadata |-> [env |-> "prod"],
     good_events_count |-> 2,
     bad_events_count |-> 1]

\* lines 169-207: the metric dict after the call (it is changed in place)
use_deprecated_fields(config, metric) ==
    LET typed == IF "metric_type" \in DOMAIN config
                 THEN Update(metric, [alias |-> config.metric_type])
                 ELSE metric
        labelled == IF "metric_labels" \in DOMAIN config
                    THEN Update(typed, [labels |-> config.metric_labels])
                    ELSE typed
    IN  IF "metric_description" \in DOMAIN config
        THEN Update(labelled, [description |-> config.metric_description])
        ELSE labelled

\* lines 162-163: data_labels.update({k: str(v) ...}) for the nested labels
RECURSIVE nested_labels(_, _, _)
nested_labels(report, labels, n) ==
    IF n = 0 THEN <<>>
    ELSE LET label == labels[n]
             before == nested_labels(report, labels, n - 1)
         IN  IF label \in DOMAIN report /\ label \in DictFields
             THEN Update(before, report[label])
             ELSE before

\* lines 143-167
build_data_labels(report, labels) ==
    LET flat == {labels[n] : n \in 1..Len(labels)}
                    \cap ((DOMAIN report) \ DictFields)
    IN  Update(nested_labels(report, labels, Len(labels)),
               [label \in flat |->
                   IF label \in NumFields THEN ToString(report[label])
                   ELSE report[label]])

\* lines 106-140
build_metric(cls, report, metric, metric_labels) ==
    LET name == metric.name
        labels == Get(metric, "labels", metric_labels)
                      \o Get(metric, "additional_labels", <<>>)
        aliased == IF "alias" \in DOMAIN metric THEN metric.alias ELSE name
        prefix == cls.METRIC_PREFIX
    IN  Update(metric,
               [value |-> report[name[1]],
                timestamp |-> report.timestamp,
                labels |-> build_data_labels(report, labels),
                name |-> IF prefix # <<>> /\ ~StartsWith(aliased, prefix)
                         THEN prefix \o aliased ELSE aliased,
                description |-> Get(metric, "description", "")])

\* lines 84-95: the metric dict the loop works on, and what it is after
\* use_deprecated_fields
MetricCfg(config, metric_cfg, metric_labels) ==
    LET dict == IF IsStr(metric_cfg)
                THEN [name |-> metric_cfg.str,
                      alias |-> metric_cfg.str,
                      description |-> "",
                      labels |-> metric_labels]
                ELSE metric_cfg
    IN  IF dict.name = <<"error_budget_burn_rate">>
        THEN use_deprecated_fields(config, dict)
        ELSE dict

\* lines 69-104: the metrics handed to export_metric, and the metrics list
\* after the call (a dict of the list is the object use_deprecated_fields
\* changes; the dict made for a string is not in the list)
MetricsExporter_export(cls, report, config, metric_labels, default_metrics) ==
    LET metrics == Get(config, "metrics", default_metrics)
        fields == [key \in (DOMAIN config) \cap
                       (cls.REQUIRED_FIELDS \cup cls.OPTIONAL_FIELDS) |->
                      config[key]]
    IN  [out |-> [n \in 1..Len(metrics) |->
                     build_metric(cls, report,
                         Update(MetricCfg(config, metrics[n], metric_labels),
                                fields),
                         metric_labels)],
         metrics |-> [n \in 1..Len(metrics) |->
                         IF IsStr(metrics[n]) THEN metrics[n]
                         ELSE MetricCfg(config, metrics[n], metric_labels)]]

\* the metrics lists of the exporter configs: none, the short form and the
\* dict form of the burn rate metric
MetricsLists ==
    {<<ShortForm(<<"error_budget_burn_rate">>)>>,
     <<[name |-> <<"error_budget_burn_rate">>,
        description |-> "Burn rate",
        additional_labels |-> <<"good_events_count">>],
       ShortForm(<<"sli_measurement">>)>>}

\* the deprecated fields of the exporter configs
DeprecatedFields ==
    {<<>>,
     [metric_type |-> <<"custom.googleapis.com/", "ebbr">>],
     [metric_labels |-> <<"slo_name">>, metric_description |-> "Old"],
     [metric_type |-> <<"ebbr">>,
      metric_labels |-> <<"slo_name", "metadata">>,
      metric_description |-> "Old"]}

ExporterConfigs ==
    {Update([project_id |-> "p"], deprecated) :
        deprecated \in DeprecatedFields}
    \cup {Update([project_id |-> "p", metrics |-> metrics], deprecated) :
            metrics \in MetricsLists, deprecated \in DeprecatedFields}

\* a process with two exporter configs loaded, before its first export
InitMetrics ==
    /\ \E first, second \in ExporterConfigs :
           cfg = [cls |-> CloudMonitoringExporter,
                  data |-> ReportData,
                  exporters |-> <<first, second>>]
    /\ pc = "metrics"
    /\ ModulesLoaded
    /\ self = <<>>
    /\ data = DataNone
    /\ stepidx = 1
    /\ reports = <<>>
    /\ badevents = <<>>
    /\ reportswindow = <<>>
    /\ reportswindowname = <<>>
    /\ cursor = 1
    /\ calls = <<>>
    /\ exported = <<>>
    /\ result = <<>>
    /\ all_reports = <<>>
    /\ runs = <<>>

\* one call of MetricsExporter.export with one of the exporter configs
ExportMetrics ==
    /\ pc = "metrics"
    /\ Len(calls) < MaxExports
    /\ \E e \in 1..Len(cfg.exporters) :
        LET config == cfg.exporters[e]
            r == MetricsExporter_export(cfg.cls, cfg.data, config,
                                        DEFAULT_METRIC_LABELS, DEFAULT_METRICS)
        IN  /\ calls' = Append(calls, [exporter |-> e, config |-> config,
                                       out |-> r.out])
            /\ exported' = exported \o r.out
            /\ IF "metrics" \in DOMAIN config
               THEN /\ cfg' = [cfg EXCEPT !.exporters[e] =
                                   Update(config, [metrics |-> r.metrics])]
                    /\ UNCHANGED DEFAULT_METRICS
               ELSE /\ DEFAULT_METRICS' = r.metrics
                    /\ UNCHANGED cfg
    /\ UNCHANGED <<DEFAULT_METRIC_LABELS, shared_config, pc, self, data,
                   stepidx, reports, badevents, reportswindow,
                   reportswindowname, cursor, result, all_reports, runs>>

NextMetrics == ExportMetrics

SpecMetrics == InitMetrics /\ [][NextMetrics]_vars

----------------------------------------------------------------------------
(* backends: good_bad_ratio and distribution_cut *)

\* cloud_monitoring.py lines 214-229, prometheus.py lines 170-185: the
\* value of the first point of the first series, NO_DATA when there is none
count(timeseries) == IF timeseries = <<>> THEN NO_DATA ELSE timeseries[1]

\* what a query for events may return: no series, or one series of one
\* point
TimeSeries == {<<>>} \cup {<<n>> : n \in 0..MaxCount}

\* cloud_monitoring.py lines 59-97, prometheus.py lines 76-98,
\* cloud_monitoring_abc.py lines 59-83
good_bad_ratio(measurement, good_ts, bad_ts, valid_ts) ==
    LET good_event_count == count(good_ts)
    IN  IF measurement.filter_bad
        THEN [raised |-> FALSE,
              value |-> <<good_event_count, count(bad_ts)>>]
        ELSE IF measurement.filter_valid
        THEN [raised |-> FALSE,
              value |-> <<good_event_count,
                          count(valid_ts) - good_event_count>>]
        ELSE [raised |-> TRUE, value |-> <<>>]

\* the count of bucket i alone
count_sum_bucket(bucket_counts, i) == bucket_counts[i + 1]

\* cloud_monitoring.py lines 135-144: distribution[i]["count_sum"], the
\* running sum at bucket i (buckets are numbered from 0)
RECURSIVE count_sum(_, _)
count_sum(bucket_counts, i) ==
    IF i = 0 THEN bucket_counts[1]
    ELSE count_sum(bucket_counts, i - 1) + bucket_counts[i + 1]

\* cloud_monitoring.py lines 111-162, cloud_monitoring_abc.py lines 102-144
distribution_cut(measurement, series) ==
    IF series = <<>> THEN <<NO_DATA, NO_DATA>>
    ELSE LET distribution_value == series[1]
             bucket_counts == distribution_value.bucket_counts
             valid_events_count == distribution_value.count
             threshold_bucket == measurement.threshold_bucket
             below == Len(bucket_counts) - 1 < threshold_bucket
             lower_events_count ==
                 IF below THEN valid_events_count
                 ELSE count_sum(bucket_counts, threshold_bucket)
             upper_events_count ==
                 IF below THEN 0
                 ELSE valid_events_count - lower_events_count
         IN  IF measurement.good_below_threshold
             THEN <<lower_events_count, upper_events_count>>
             ELSE <<upper_events_count, lower_events_count>>

RECURSIVE SumSeq(_)
SumSeq(s) == IF s = <<>> THEN 0 ELSE s[1] + SumSeq(Tail(s))

\* the bucket counts of a distribution of at most MaxBuckets buckets
BucketCounts ==
    UNION {[1..n -> 0..MaxCount] : n \in 0..MaxBuckets}

\* what the query of distribution_cut may return: no series, or one series
\* whose point is a distribution; its count is the sum of its bucket counts
DistributionSeries ==
    {<<>>} \cup
    {<<[bucket_counts |-> b, count |-> SumSeq(b)]>> : b \in BucketCounts}

\* a backend about to run a method of an SLO config
InitBackend ==
    /\ \/ \E good_ts, bad_ts, valid_ts \in TimeSeries :
          \E filter_bad, filter_valid \in BOOLEAN :
              cfg = [method |-> "good_bad_ratio",
                     measurement |-> [filter_bad |-> filter_bad,
                                      filter_valid |-> filter_valid],
                     good_ts |-> good_ts,
                     bad_ts |-> bad_ts,
                     valid_ts |-> valid_ts]
       \/ \E series \in DistributionSeries :
          \E threshold_bucket \in 0..(MaxBuckets + 1) :
          \E good_below_threshold \in BOOLEAN :
              cfg = [method |-> "distribution_cut",
                     measurement |->
                         [threshold_bucket |-> threshold_bucket,
                          good_below_threshold |-> good_below_threshold],
                     series |-> series]
    /\ pc = "backend"
    /\ ModulesLoaded
    /\ self = <<>>
    /\ data = DataNone
    /\ stepidx = 1
    /\ reports = <<>>
    /\ badevents = <<>>
    /\ reportswindow = <<>>
    /\ reportswindowname = <<>>
    /\ cursor = 1
    /\ calls = <<>>
    /\ exported = <<>>
    /\ result = <<>>
    /\ all_reports = <<>>
    /\ runs = <<>>

GoodBadRatio ==
    /\ pc = "backend"
    /\ cfg.method = "good_bad_ratio"
    /\ result' = good_bad_ratio(cfg.measurement, cfg.good_ts, cfg.bad_ts,
                                cfg.valid_ts)
    /\ pc' = "returned"
    /\ UNCHANGED <<modvars, cfg, self, data, stepidx, reports, badevents,
                   reportswindow, reportswindowname, cursor, calls, exported,
                   all_reports, runs>>

DistributionCut ==
    /\ pc = "backend"
    /\ cfg.method = "distribution_cut"
    /\ result' = [raised |-> FALSE,
                  value |-> distribution_cut(cfg.measurement, cfg.series)]
    /\ pc' = "returned"
    /\ UNCHANGED <<modvars, cfg, self, data, stepidx, reports, badevents,
                   reportswindow, reportswindowname, cursor, calls, exported,
                   all_reports, runs>>

NextBackend == GoodBadRatio \/ DistributionCut

SpecBackend == InitBackend /\ [][NextBackend]_vars

----------------------------------------------------------------------------
(* migrations/migrator.py: add_to_shared_config *)

\* constants.py lines 55-58; a class name is the sequence of its
\* capitalised words
PROVIDERS_COMPAT ==
    (<<"Stackdriver">> :> <<"Cloud", "Monitoring">>)
    @@ (<<"Stackdriver", "Service", "Monitoring">>
            :> <<"Cloud", "Service", "Monitoring">>)

\* str.lower of a word of a class name
Lower(word) ==
    CASE word = "Cloud" -> "cloud"
      [] word = "Monitoring" -> "monitoring"
      [] word = "Mql" -> "mql"
      [] word = "Service" -> "service"
      [] word = "Stackdriver" -> "stackdriver"

\* utils.py lines 399-408: an underscore before every capital but the
\* first, then lower case; the result is held as the sequence of its words,
\* which the underscores join
caml_to_snake(word) == [n \in 1..Len(word) |-> Lower(word[n])]

\* the place of a word in the order of strings
WordRank(word) ==
    CASE word = "cloud" -> 1
      [] word = "monitoring" -> 2
      [] word = "mql" -> 3
      [] word = "service" -> 4
      [] word = "stackdriver" -> 5

\* the order of strings on snake-case names: a name comes before the names
\* it is a proper prefix of
RECURSIVE SnakeLess(_, _)
SnakeLess(a, b) ==
    IF b = <<>> THEN FALSE
    ELSE IF a = <<>> THEN TRUE
    ELSE IF a[1] # b[1] THEN WordRank(a[1]) < WordRank(b[1])
    ELSE SnakeLess(Tail(a), Tail(b))

\* a key of a section: the snake-case name, then "/" and a suffix when
\* suffix is not 0
Key(cls, suffix) == [cls |-> cls, suffix |-> suffix]

\* the order of strings on keys ("/" sorts before "_" and before every
\* letter, so the keys of a name come before those of a longer name)
KeyLess(a, b) ==
    \/ SnakeLess(a.cls, b.cls)
    \/ (a.cls = b.cls /\ a.suffix < b.suffix)

\* line 494: k.startswith(key.split("/")[0]), for a name made of whole
\* words
KeyStartsWith(k, cls) == StartsWith(k.cls, cls)

\* str(dict): the items in the order of the dict
DictStr(d) == d

\* lines 484-534 in quiet mode, with the suffix get_random_suffix draws: the
\* key returned and the section after the call
add_to_shared_config(new_obj, shared_obj, suffix) ==
    LET config == new_obj.config
        key == Key(caml_to_snake(Get(PROVIDERS_COMPAT, new_obj.class,
                                     new_obj.class)), 0)
        existing_obj ==
            {k \in DOMAIN shared_obj :
                /\ KeyStartsWith(k, key.cls)
                /\ DictStr(shared_obj[k]) = DictStr(config)}
    IN  IF existing_obj # {}
        THEN [key |-> CHOOSE k \in existing_obj :
                         \A other \in existing_obj \ {k} : KeyLess(k, other),
              shared_obj |-> shared_obj]
        ELSE LET new_key == IF key \in DOMAIN shared_obj
                            THEN Key(key.cls, suffix) ELSE key
             IN  [key |-> new_key,
                  shared_obj |->
                      [k \in (DOMAIN shared_obj) \cup {new_key} |->
                          IF k = new_key THEN config ELSE shared_obj[k]]]

\* the classes of the objects of a v1 config
Classes ==
    {<<"Stackdriver">>, <<"Cloud", "Monitoring">>,
     <<"Cloud", "Monitoring", "Mql">>}

\* the configs of the objects, as ordered dicts without their class
Configs ==
    {<<<<"project_id", "p1">>>>,
     <<<<"project_id", "p2">>>>,
     <<<<"project_id", "p1">>, <<"url", "u">>>>,
     <<<<"url", "u">>, <<"project_id", "p1">>>>}

\* a migration starting with an empty section, as in test_migrate.py
InitMigrate ==
    /\ cfg = [quiet |-> TRUE, section |-> "backends"]
    /\ pc = "migrate"
    /\ ModulesLoaded
    /\ self = <<>>
    /\ data = DataNone
    /\ stepidx = 1
    /\ reports = <<>>
    /\ badevents = <<>>
    /\ reportswindow = <<>>
    /\ reportswindowname = <<>>
    /\ cursor = 1
    /\ calls = <<>>
    /\ exported = <<>>
    /\ result = <<>>
    /\ all_reports = <<>>
    /\ runs = <<>>

\* one call of add_to_shared_config on the section
AddToSharedConfig ==
    /\ pc = "migrate"
    /\ Len(calls) < MaxAdds
    /\ \E class \in Classes, config \in Configs, suffix \in 1..MaxSuffix :
        LET new_obj == [class |-> class, config |-> config]
            r == add_to_shared_config(new_obj, shared_config, suffix)
        IN  /\ shared_config' = r.shared_obj
            /\ result' = r.key
            /\ calls' = Append(calls, [new_obj |-> new_obj,
                                       before |-> shared_config,
                                       key |-> r.key,
                                       after |-> r.shared_obj])
    /\ UNCHANGED <<DEFAULT_METRIC_LABELS, DEFAULT_METRICS, cfg, pc, self,
                   data, stepidx, reports, badevents, reportswindow,
                   reportswindowname, cursor, exported, all_reports, runs>>

NextMigrate == AddToSharedConfig

SpecMigrate == InitMigrate /\ [][NextMigrate]_vars

----------------------------------------------------------------------------
(* Properties *)

KeysOf(rw) == {rw[n].key : n \in 1..Len(rw)}

\* k1 and k2 are consecutive keys of the window index and the smaller
\* window k1 has more bad events than the larger window k2
Exceeds(k1, k2) ==
    /\ k1 \in DOMAIN badevents
    /\ k2 \in DOMAIN badevents
    /\ k1 < k2
    /\ \A k \in DOMAIN badevents : ~(k1 < k /\ k < k2)
    /\ badevents[k1] >= 0
    /\ badevents[k1] > badevents[k2]

\* the exporter invocations made for the report indexed under key k
ExportedFor(k) ==
    {n \in 1..Len(exported) :
        reports[exported[n].report].error_budget_policy_step_name
            = reportswindowname[k]}

Checked == pc \in {"export", "done"}

StepOutcome(i) ==
    calls[CHOOSE n \in 1..Len(calls) : calls[n].step = i].outcome

\* whether the report built for step st is valid
StepValid(st) ==
    /\ cfg.cls_loaded
    /\ LET i == CHOOSE j \in 1..Len(cfg.steps) : cfg.steps[j] = st
       IN  SLOReport(cfg.goal, cfg.min_valid_events, cfg.cls_loaded,
                     cfg.has_delete, st, cfg.delete, StepOutcome(i)).obj.valid

NamesOf(rs) == [n \in 1..Len(rs) |-> rs[n].error_budget_policy_step_name]
StepNamesOf(sts) == [n \in 1..Len(sts) |-> sts[n].name]

\* C2 as stated: the list compute returns holds one report per step, in
\* step order, whatever do_export and delete are.
C2_OneReportPerStep ==
    pc = "done" => NamesOf(result) = StepNamesOf(cfg.steps)

\* C2 amended: the list compute returns holds, in step order, one report per
\* step when delete is false, and the reports of the invalid steps only when
\* delete is true.
C2_OneReportPerStepUnlessDelete ==
    pc = "done" =>
        NamesOf(result) =
            StepNamesOf(SelectSeq(cfg.steps,
                LAMBDA st : ~cfg.delete \/ ~StepValid(st)))

C2_Witness ==
    /\ pc = "done"
    /\ cfg.delete
    /\ Len(result) >= 1
    /\ Len(result) < Len(cfg.steps)

\* C3: every exporter invocation is made for a report whose valid flag is
\* true and whose SLI passed the range check.
C3_OnlyValidExported ==
    \A n \in 1..Len(exported) :
        /\ exported[n].valid
        /\ reports[exported[n].report].valid
        /\ 0 <= reports[exported[n].report].sli_measurement
        /\ reports[exported[n].report].sli_measurement <= SliUnit

C3_Witness ==
    /\ pc = "done"
    /\ \E n \in 1..Len(exported) : exported[n].called
    /\ \E n \in 1..Len(reports) : ~reports[n].valid
    /\ reports[1].valid = FALSE
    /\ Len(reports) >= 3

\* the exporters of a call of export
ExportersOf(arg) == IF arg.kind = "dict" THEN <<arg.value>> ELSE arg.value

\* whether exporter n of a call of export failed
ExporterFailed(n) ==
    \/ ~ExportersOf(cfg.exporters)[n].loadable
    \/ result.outcomes[n] = "raise"

\* the error expected of the exporters n.., in exporter order
RECURSIVE ExpectedErrors(_)
ExpectedErrors(n) ==
    IF n > Len(ExportersOf(cfg.exporters)) THEN <<>>
    ELSE LET e == ExportersOf(cfg.exporters)[n]
             text == e.class \o "Exporter " \o e.name \o " failed. | "
                     \o (IF e.loadable THEN "ValueError: Oops !"
                         ELSE "ImportError: Exporter not found in shared config.")
         IN  (IF ExporterFailed(n) THEN <<text>> ELSE <<>>)
                 \o ExpectedErrors(n + 1)

CallsFor(i) == {n \in 1..Len(calls) : calls[n].step = i}

\* C5: the backend method is invoked at most once per step, never when the
\* backend class does not load, and exactly once for every step compute has
\* evaluated when the class loads, whether or not the call raised.
C5_OneBackendCallPerStep ==
    \A i \in 1..Len(cfg.steps) :
        /\ Cardinality(CallsFor(i)) <= 1
        /\ ~cfg.cls_loaded => CallsFor(i) = {}
        /\ (cfg.cls_loaded /\ i < stepidx) => Cardinality(CallsFor(i)) = 1
        /\ i > stepidx => CallsFor(i) = {}

C5_Witness ==
    /\ pc = "done"
    /\ Len(cfg.steps) >= 2
    /\ \E n \in 1..Len(calls) : calls[n].outcome.out = "raise"
    /\ \A i \in 1..Len(cfg.steps) : Cardinality(CallsFor(i)) = 1

\* C6: when the backend call of a step raised, the step's report is in the
\* list with valid false and the formatted exception among its errors,
\* the loop went on to the next step, and once the loop is over every later
\* step has had its backend call.
C6_BackendExceptionCaught ==
    \A n \in 1..Len(calls) :
        calls[n].outcome.out = "raise" =>
            LET i == calls[n].step
            IN  /\ stepidx > i
                /\ \E m \in 1..Len(reports) :
                    /\ reports[m].error_budget_policy_step_name
                           = cfg.steps[i].name
                    /\ ~reports[m].valid
                    /\ \E e \in 1..Len(reports[m].errors) :
                           reports[m].errors[e]
                               = calls[n].outcome.exc.cls \o ": "
                                   \o calls[n].outcome.exc.msg
                /\ Checked =>
                       \A j \in (i + 1)..Len(cfg.steps) : CallsFor(j) # {}

C6_Witness ==
    /\ pc = "done"
    /\ Len(cfg.steps) >= 2
    /\ Len(calls) = Len(cfg.steps)
    /\ Len(reports) = Len(cfg.steps)
    /\ calls[1].outcome.out = "raise"
    /\ ~reports[1].valid
    /\ reports[Len(reports)].valid

Ended == pc \in {"Invalid", "PostInvalid", "Ready"}

\* C7 as stated: a report that ends construction with valid false carries
\* at least one error string.
C7_InvalidReportHasError ==
    (Ended /\ ~self.valid) => Len(self.errors) >= 1

\* C8 as stated: no backend result makes the construction raise.
C8_ConstructionNeverRaises ==
    pc # "Raised"

\* C9: a report that ends construction valid has 0 <= sli_measurement <= 1,
\* and a report built with an SLI outside that range ends with valid false
\* and the out-of-range error.
C9_ValidSliInRange ==
    /\ (Ended /\ self.valid) =>
           (0 <= self.sli_measurement /\ self.sli_measurement <= SliUnit)
    /\ (pc \in {"PostInvalid", "Ready"}
            /\ ~(0 <= self.sli_measurement /\ self.sli_measurement <= SliUnit))
           => /\ ~self.valid
              /\ self.errors = <<ErrSliRange>>

C9_Witness ==
    /\ pc = "PostInvalid"
    /\ data.kind = "tuple"
    /\ data.items[1].v < NO_DATA_COUNT
    /\ self.sli_measurement < 0
    /\ ~self.valid

\* C10: in every built report, alert is true exactly when the stored
\* error_budget_burn_rate is strictly greater than the step's threshold.
C10_AlertIffBurnRateAboveThreshold ==
    (pc \in {"Built", "PostInvalid", "Ready"}) =>
        (self.alert <=>
            self.error_budget_burn_rate > cfg.steps[1].burn_rate_threshold)

C10_Witness ==
    /\ pc = "Ready"
    /\ self.error_budget_burn_rate = cfg.steps[1].burn_rate_threshold
    /\ self.error_budget_burn_rate > 0
    /\ ~self.alert

\* the backend result is a pair of numbers
IsPair(d) ==
    /\ d.kind = "tuple"
    /\ Len(d.items) = 2
    /\ \A n \in 1..2 : d.items[n].t = "num"

Built == pc \in {"Built", "PostInvalid", "Ready"}

\* C11 as stated: with goal = 1, whatever result passed validation, the
\* construction goes on without a division by zero, and the built report has
\* error_budget_burn_rate = 0 and alert false.
C11_NoBurnAtGoalOne ==
    (cfg.goal = SliUnit /\ pc \in {"Validated", "Raised"} \cup
                                  {"Built", "PostInvalid", "Ready"}) =>
        /\ pc # "Raised"
        /\ Built => /\ self.error_budget_burn_rate = 0
                    /\ ~self.alert

\* C12 as stated: a valid report derived from a pair has
\* good_events_count + bad_events_count = events_count.
C12_CountsAddUp ==
    (pc = "Ready" /\ self.valid /\ IsPair(data)) =>
        self.good_events_count + self.bad_events_count = self.events_count

\* the pair has NO_DATA in exactly one place and the count c in the other
OneNoData(d) ==
    /\ IsPair(d)
    /\ (d.items[1].v = NO_DATA_COUNT) # (d.items[2].v = NO_DATA_COUNT)

OtherCount(d) ==
    IF d.items[1].v = NO_DATA_COUNT THEN d.items[2].v ELSE d.items[1].v

\* C13 as stated: a pair with exactly one NO_DATA element and the other
\* count c >= MIN_VALID_EVENTS gives a valid report, with sli = 1 when bad is
\* NO_DATA and sli = 0 when good is NO_DATA.
C13_OneNoDataIsZero ==
    (/\ pc \in {"Invalid", "Raised", "PostInvalid", "Ready"}
     /\ OneNoData(data)
     /\ OtherCount(data) >= cfg.min_valid_events * CountUnit) =>
        /\ pc = "Ready"
        /\ self.valid
        /\ self.sli_measurement =
               IF data.items[2].v = NO_DATA_COUNT THEN SliUnit ELSE 0

\* the count a pair element stands for once NO_DATA is replaced by 0
Normalised(v) == IF v = NO_DATA_COUNT THEN 0 ELSE v

\* C14 as stated: the counts stored in a report built from a pair are the
\* counts the backend gave, NO_DATA included.
C14_CountsAsGiven ==
    (Built /\ IsPair(data)) =>
        /\ self.good_events_count = Trunc(data.items[1].v, CountUnit)
        /\ self.bad_events_count = Trunc(data.items[2].v, CountUnit)

\* C14: the counts stored in a report built from a pair are the counts with
\* NO_DATA replaced by 0, the same counts the SLI division used: a pair
\* (c, NO_DATA) is reported with bad_events_count = 0 and events_count = c.
C14_CountsNormalised ==
    (Built /\ IsPair(data)) =>
        /\ self.good_events_count =
               Trunc(Normalised(data.items[1].v), CountUnit)
        /\ self.bad_events_count =
               Trunc(Normalised(data.items[2].v), CountUnit)
        /\ self.events_count =
               Trunc(Normalised(data.items[1].v)
                        + Normalised(data.items[2].v), CountUnit)

C14_Witness ==
    /\ pc = "Ready"
    /\ self.valid
    /\ data = DataPair(MaxCount, NO_DATA)
    /\ self.bad_events_count = 0
    /\ self.good_events_count = MaxCount
    /\ self.sli_measurement = SliUnit

\* the error of the first rule that result d fails, in the order result
\* type, pair arity, element type, both elements NO_DATA, sum below the
\* minimum, scalar NO_DATA
FirstFailingRule(d, min_valid_events) ==
    IF d.kind = "obj" THEN ErrWrongType
    ELSE IF d.kind = "tuple" /\ Len(d.items) # 2 THEN ErrTupleLen
    ELSE IF d.kind = "tuple" /\ ~IsPair(d) THEN ErrElemType
    ELSE IF d.kind = "tuple" /\ d.items[1].v = NO_DATA_COUNT
                             /\ d.items[2].v = NO_DATA_COUNT
    THEN ErrPairNoData
    ELSE IF d.kind = "tuple" THEN ErrNotEnough
    ELSE ErrNoData

\* the pair is (0, 0) or its sum is below the minimum of valid events
TooFewEvents(d, min_valid_events) ==
    /\ IsPair(d)
    /\ \/ d.items[1].v + d.items[2].v < min_valid_events * CountUnit
       \/ (d.items[1].v = 0 /\ d.items[2].v = 0)

\* C15 as stated: a failed validation leaves exactly one error string, the
\* one of the first rule that fails, and a pair (0, 0) or with a sum below
\* MIN_VALID_EVENTS is invalid.
C15_FirstFailingRuleOnly ==
    /\ pc = "Invalid" => Len(self.errors) = 1
    /\ (pc = "Invalid" /\ data.kind # "none") =>
           self.errors = <<FirstFailingRule(data, cfg.min_valid_events)>>
    /\ (pc \notin {"Pending", "Fetched"}
            /\ TooFewEvents(data, cfg.min_valid_events)) => pc = "Invalid"

InvalidJsonFields ==
    {"metadata", "errors", "error_budget_policy_step_name", "valid"}

\* C16: every serialized report with valid = false that compute holds has
\* exactly the fields metadata, errors, error_budget_policy_step_name and
\* valid, whether validation failed before build or post-validation failed
\* after the SLI and error-budget fields had been computed.
C16_InvalidJsonHasNoSliFields ==
    \A i \in 1..Len(reports) :
        ~reports[i].valid => DOMAIN reports[i] = InvalidJsonFields

C16_Witness ==
    /\ pc = "done"
    /\ \E i, j \in 1..Len(reports) :
        /\ ~reports[i].valid
        /\ reports[i].errors = <<ErrSliRange>>
        /\ calls[i].outcome = Returned(DataPair(3, -2))
        /\ ~reports[j].valid
        /\ reports[j].errors = <<fmt_traceback([cls |-> "ValueError",
                                               msg |-> "Oops !"])>>
        /\ DOMAIN reports[i] = InvalidJsonFields
        /\ DOMAIN reports[j] = InvalidJsonFields

\* C19: the consequence message of a built report is the step's breach
\* message when alert is true, else the step's within-budget message when
\* the burn rate is <= 1, else the fixed message; the fixed message appears
\* exactly when 1 < burn rate <= threshold.
C19_MessageByCase ==
    Built =>
        LET step == cfg.steps[1]
            rate == self.error_budget_burn_rate
        IN  /\ self.alert => self.consequence_message = step.message_alert
            /\ (~self.alert /\ rate <= BurnUnit) =>
                   self.consequence_message = step.message_ok
            /\ (~self.alert /\ rate > BurnUnit) =>
                   self.consequence_message = MsgMissed
            /\ self.consequence_message = MsgMissed <=>
                   (BurnUnit < rate /\ rate <= step.burn_rate_threshold)

C19_Witness ==
    /\ pc = "Ready"
    /\ self.consequence_message = MsgMissed
    /\ ~self.alert
    /\ self.error_budget_burn_rate > BurnUnit
    /\ self.error_budget_burn_rate < cfg.steps[1].burn_rate_threshold

\* the command has ended: it returned, or the process exited
CliEnded == pc \in {"cli_done", "exit"}

\* the SLO config names a backend and a policy of the shared config
Resolvable(slo_config) ==
    /\ slo_config.spec.backend \in DOMAIN cfg.config.backends
    /\ slo_config.spec.error_budget_policy
           \in DOMAIN cfg.config.error_budget_policies

\* C17 as stated: when the command has ended, every SLO config of the batch
\* whose backend is in the shared config has been evaluated and its reports
\* returned, whatever the other SLO configs of the batch name.
C17_OtherDefinitionsEvaluated ==
    CliEnded =>
        \A k \in 1..Len(cfg.slo_configs) :
            Resolvable(cfg.slo_configs[k]) =>
                /\ k <= Len(runs)
                /\ runs[k].slo_config = cfg.slo_configs[k]
                /\ runs[k].reports # <<>>

\* the SLO config names an exporter absent from the shared config
UnknownExporter(slo_config) ==
    \E e \in Range(slo_config.spec.exporters) :
        e \notin DOMAIN cfg.config.exporters

\* C18 as stated: in a run of compute for an SLO config that names an
\* exporter absent from the shared config, no step is evaluated and no
\* exporter is invoked.
C18_UnknownExporterStopsRun ==
    (pc \in {"steps", "export", "done"} /\ UnknownExporter(SloConfigAt)) =>
        /\ calls = <<>>
        /\ exported = <<>>

StepOfReport(i) ==
    CHOOSE j \in 1..Len(cfg.steps) :
        cfg.steps[j].name = reports[i].error_budget_policy_step_name

\* the errors the construction of reports[i] left in it
ConstructionErrors(i) ==
    IF ~cfg.cls_loaded THEN <<>>
    ELSE SLOReport(cfg.goal, cfg.min_valid_events, cfg.cls_loaded,
                   cfg.has_delete, cfg.steps[StepOfReport(i)], cfg.delete,
                   StepOutcome(StepOfReport(i))).obj.errors

\* the indexes in reports of the reports still in the export batch
BatchIndexes == {reportswindow[p].idx : p \in 1..Len(reportswindow)}

\* C21: when compute has returned with do_export false, no exporter was
\* tried and every report has the errors of its construction only; with
\* do_export true, every report left in the batch by the consistency check
\* was handed to every configured exporter exactly once, reports in the
\* order of their steps and exporters in configured order (the export
\* method being called when the exporter's class loads), and the errors
\* returned for a report were appended to that report and to no other.
C21_ExportLoop ==
    pc = "done" =>
        LET E == Len(cfg.exporters)
            res == export(ExporterList(cfg.exporters),
                          ComputeExportOutcomes(cfg.exporters), FALSE)
        IN  IF ~cfg.do_export
            THEN /\ exported = <<>>
                 /\ \A i \in 1..Len(reports) :
                        reports[i].errors = ConstructionErrors(i)
            ELSE /\ Len(exported) = Len(reportswindow) * E
                 /\ \A p \in 1..Len(reportswindow), n \in 1..E :
                        LET x == exported[(p - 1) * E + n]
                        IN  /\ x.report = reportswindow[p].idx
                            /\ x.exporter = n
                            /\ x.called = cfg.exporters[n].loadable
                 /\ \A p, q \in 1..Len(reportswindow) :
                        p < q => reportswindow[p].idx < reportswindow[q].idx
                 /\ \A i \in 1..Len(reports) :
                        reports[i].errors =
                            ConstructionErrors(i) \o
                                (IF i \in BatchIndexes THEN res.errors
                                 ELSE <<>>)

C21_Witness ==
    /\ pc = "done"
    /\ cfg.do_export
    /\ Len(cfg.exporters) = 3
    /\ Len(reportswindow) = 2
    /\ Len(exported) = 6
    /\ \E i \in 1..Len(reports) :
           reports[i].valid /\ i \notin BatchIndexes /\ reports[i].errors = <<>>
    /\ \A i \in BatchIndexes : Len(reports[i].errors) = 2

\* the exporters of the call that fail: class not loaded, or export raising
FailingExporters ==
    {n \in 1..Len(ExportersOf(cfg.exporters)) : ExporterFailed(n)}

\* the exception exporter n fails with
ExceptionOf(n) ==
    IF ExportersOf(cfg.exporters)[n].loadable
    THEN [cls |-> "ValueError", msg |-> "Oops !"]
    ELSE [cls |-> "ImportError",
          msg |-> "Exporter not found in shared config."]

\* C22: with raise_on_error true, export raises the exception of the first
\* exporter that fails; the exporters before it were each tried once, in
\* order, and their export method called; no exporter after it is tried;
\* and export returns, every exporter called once, when none fails.
C22_FirstFailureReraised ==
    (pc \in {"done", "raised"} /\ cfg.raise_on_error) =>
        IF FailingExporters = {}
        THEN /\ pc = "done"
             /\ [n \in 1..Len(exported) |-> exported[n].exporter]
                    = [n \in 1..Len(ExportersOf(cfg.exporters)) |-> n]
             /\ \A n \in 1..Len(exported) : exported[n].called
        ELSE LET f == CHOOSE n \in FailingExporters :
                          \A k \in FailingExporters : n <= k
             IN  /\ pc = "raised"
                 /\ result.raised = <<ExceptionOf(f)>>
                 /\ result.errors = <<>>
                 /\ [n \in 1..Len(exported) |-> exported[n].exporter]
                        = [n \in 1..f |-> n]
                 /\ \A n \in 1..(f - 1) : exported[n].called
                 /\ exported[f].called = ExportersOf(cfg.exporters)[f].loadable

C22_Witness ==
    /\ pc = "raised"
    /\ cfg.raise_on_error
    /\ Len(ExportersOf(cfg.exporters)) = 3
    /\ Len(exported) = 2
    /\ exported[1].called /\ result.outcomes[1] = "ok"
    /\ exported[2].called /\ result.outcomes[2] = "raise"
    /\ result.outcomes[3] = "raise"
    /\ result.raised = <<[cls |-> "ValueError", msg |-> "Oops !"]>>

\* the stage of the construction, the steps between two stages left out
Stage(p) ==
    CASE p \in {"Pending", "Fetched"} -> "Pending"
      [] p = "Validated" -> "Validated"
      [] OTHER -> p

\* the moves Pending -> (Invalid | Built) -> (PostInvalid | Ready), with the
\* validation between Pending and Built
StageMoves ==
    {<<"Pending", "Pending">>, <<"Pending", "Invalid">>,
     <<"Pending", "Validated">>, <<"Validated", "Built">>,
     <<"Built", "PostInvalid">>, <<"Built", "Ready">>}

\* the report has SLI and error-budget fields
HasSliFields(obj) == "error_budget_burn_rate" \in DOMAIN obj

\* C23 as stated: the construction moves Pending -> (Invalid | Built) ->
\* (PostInvalid | Ready) and never leaves these stages, the SLI and
\* error-budget fields exist only once validation succeeded and build ran,
\* and valid never goes from false back to true.
C23_ConstructionStages ==
    /\ [](pc \in {"Pending", "Fetched", "Validated", "Invalid", "Built",
                  "PostInvalid", "Ready"})
    /\ [](HasSliFields(self) => pc \in {"Built", "PostInvalid", "Ready"})
    /\ [][/\ <<Stage(pc), Stage(pc')>> \in StageMoves
          /\ self'.valid => self.valid]_vars

\* C24: the backend calls are made in step order, each for a step whose
\* report is built before the next call; until the loop over the steps is
\* over no report has left the index and no exporter has been tried; the
\* consistency check and the exports find every step evaluated.
C24_StepsThenCheckThenExport ==
    /\ \A n \in 1..Len(calls) :
           \/ calls[n].step < stepidx
           \/ (pc = "raised" /\ calls[n].step = stepidx /\ n = Len(calls))
    /\ \A n, m \in 1..Len(calls) : n < m => calls[n].step < calls[m].step
    /\ stepidx <= Len(cfg.steps) =>
           /\ pc \in {"steps", "raised"}
           /\ exported = <<>>
           /\ Len(reportswindow) = Cardinality(DOMAIN badevents)
    /\ (pc \in {"export", "done"} \/ exported # <<>>) =>
           /\ stepidx = Len(cfg.steps) + 1
           /\ cfg.cls_loaded => Len(calls) = Len(cfg.steps)
           /\ ~cfg.delete => NamesOf(reports) = StepNamesOf(cfg.steps)

C24_Witness ==
    /\ pc = "done"
    /\ Len(cfg.steps) = 3
    /\ Len(calls) = 3
    /\ Len(reportswindow) = 2
    /\ Cardinality(DOMAIN badevents) = 3
    /\ Len(exported) >= 2
    /\ exported[1].called

\* the positions in reports of the valid reports
ValidReports == {n \in 1..Len(reports) : reports[n].valid}

\* the window configured for the step a report was built for
ConfiguredWindow(report) ==
    LET i == CHOOSE j \in 1..Len(cfg.steps) :
                 cfg.steps[j].name = report.error_budget_policy_step_name
    IN  cfg.steps[i].window

\* the positions in reports of the reports of the export batch
Batch == {reportswindow[n].idx : n \in 1..Len(reportswindow)}

\* the valid reports are indexed one key each, under their window or the
\* first unused key after it, and report the window of their step
IndexedOneKeyEach ==
    /\ Cardinality(DOMAIN badevents) = Cardinality(ValidReports)
    /\ Cardinality(KeysOf(reportswindow)) = Len(reportswindow)
    /\ Batch \subseteq ValidReports
    /\ pc = "steps" => Batch = ValidReports
    /\ \A n \in 1..Len(reportswindow) :
           LET report == reports[reportswindow[n].idx]
           IN  /\ report.window = ConfiguredWindow(report)
               /\ reportswindow[n].key >= report.window
               /\ badevents[reportswindow[n].key] = report.bad_events_count
               /\ \A k \in report.window .. reportswindow[n].key :
                      k \in DOMAIN badevents

\* a valid report that left the export batch has more bad events than the
\* report of a window at least as large
DroppedForItsCount(n) ==
    \E m \in ValidReports :
        /\ m # n
        /\ reports[m].window >= reports[n].window
        /\ reports[n].bad_events_count > reports[m].bad_events_count

\* C25 as stated: in a run without delete, every valid report has its own
\* key in the window index, none is overwritten, the indexed reports are as
\* many as the valid ones, each reports its step's window, and a report
\* leaves the export batch only for its bad-event count, never for the key
\* a collision gave to a report.
C25_NoReportLostByCollision ==
    (~cfg.delete /\ pc \in {"steps", "export", "done"}) =>
        /\ IndexedOneKeyEach
        /\ \A n \in ValidReports \ Batch : DroppedForItsCount(n)

\* C26 as stated: in a run with delete, no exporter is invoked and every
\* external call is the backend's delete action.
C26_DeleteActionOnly ==
    cfg.delete =>
        /\ exported = <<>>
        /\ \A n \in 1..Len(calls) : calls[n].method = "delete"

\* C26 amended: in a run with delete, no report is indexed and no exporter
\* is invoked, whatever do_export and the exporters are; the external calls
\* are at most one backend call per step, the delete action when the backend
\* class has one and the method of the SLO config when it has none.
C26_DeleteModeBackendCallOnly ==
    cfg.delete =>
        /\ exported = <<>>
        /\ reportswindow = <<>>
        /\ DOMAIN badevents = {}
        /\ \A n \in 1..Len(calls) :
               calls[n].method =
                   IF cfg.has_delete THEN "delete" ELSE "measure"
        /\ \A n, m \in 1..Len(calls) :
               calls[n].step = calls[m].step => n = m

C26_Witness ==
    /\ pc = "done"
    /\ cfg.delete
    /\ ~cfg.has_delete
    /\ cfg.do_export
    /\ cfg.exporters # <<>>
    /\ Len(cfg.steps) >= 2
    /\ Len(calls) = Len(cfg.steps)
    /\ \A n \in 1..Len(calls) : calls[n].method = "measure"
    /\ result = <<>>

\* C27 as stated: DEFAULT_METRICS and DEFAULT_METRIC_LABELS are what they
\* were when the module was loaded, and the metrics every export call
\* handed to export_metric are those the call's data and config give with
\* the defaults as loaded.
C27_DefaultMetricsUnchanged ==
    pc = "metrics" =>
        /\ DEFAULT_METRIC_LABELS = DefaultMetricLabels
        /\ DEFAULT_METRICS = DefaultMetrics
        /\ \A n \in 1..Len(calls) :
               calls[n].out =
                   MetricsExporter_export(cfg.cls, cfg.data, calls[n].config,
                       DefaultMetricLabels, DefaultMetrics).out

\* good_bad_ratio has returned for a config with filter_valid and without
\* filter_bad
ValidFilterOnly ==
    /\ pc = "returned"
    /\ cfg.method = "good_bad_ratio"
    /\ ~cfg.measurement.filter_bad
    /\ cfg.measurement.filter_valid

\* C28 as stated: with only a valid filter, the bad count good_bad_ratio
\* returns is NO_DATA or lies in 0..valid_count, whatever the queries
\* returned.
C28_BadCountInRange ==
    ValidFilterOnly =>
        /\ ~result.raised
        /\ \/ result.value[2] = NO_DATA
           \/ /\ 0 <= result.value[2]
              /\ result.value[2] <= count(cfg.valid_ts)

\* the sum of the counts of the buckets whose number is in S
RECURSIVE CountOfBuckets(_, _)
CountOfBuckets(bucket_counts, S) ==
    IF S = {} THEN 0
    ELSE LET i == CHOOSE j \in S : TRUE
         IN  bucket_counts[i + 1] + CountOfBuckets(bucket_counts, S \ {i})

\* C29: distribution_cut returns (NO_DATA, NO_DATA) for no series; for a
\* distribution it returns two non-negative counts that add up to the
\* distribution's count, the lower part being the count of the buckets
\* 0..threshold_bucket, or the whole count when threshold_bucket is past the
\* last bucket; the lower part is the good count when good_below_threshold,
\* the bad count otherwise.
C29_DistributionCut ==
    (pc = "returned" /\ cfg.method = "distribution_cut") =>
        IF cfg.series = <<>>
        THEN result.value = <<NO_DATA, NO_DATA>>
        ELSE LET d == cfg.series[1]
                 t == cfg.measurement.threshold_bucket
                 lower == IF t > Len(d.bucket_counts) - 1 THEN d.count
                          ELSE CountOfBuckets(d.bucket_counts, 0..t)
             IN  /\ result.value[1] >= 0
                 /\ result.value[2] >= 0
                 /\ result.value[1] + result.value[2] = d.count
                 /\ result.value =
                        IF cfg.measurement.good_below_threshold
                        THEN <<lower, d.count - lower>>
                        ELSE <<d.count - lower, lower>>

C29_Witness ==
    /\ pc = "returned"
    /\ cfg.method = "distribution_cut"
    /\ cfg.series # <<>>
    /\ Len(cfg.series[1].bucket_counts) = 2
    /\ cfg.series[1].bucket_counts[1] > 0
    /\ cfg.series[1].bucket_counts[2] > 0
    /\ cfg.measurement.threshold_bucket = 1
    /\ ~cfg.measurement.good_below_threshold
    /\ result.value = <<0, cfg.series[1].count>>

\* the snake-cased class name of an object
OwnClass(new_obj) ==
    caml_to_snake(Get(PROVIDERS_COMPAT, new_obj.class, new_obj.class))

\* two configs are equal as dicts
DictEq(a, b) == Range(a) = Range(b)

\* the keys of the entries of the object's class whose config equals the
\* object's
SameEntries(call) ==
    {k \in DOMAIN call.before :
        /\ k.cls = OwnClass(call.new_obj)
        /\ DictEq(call.before[k], call.new_obj.config)}

\* C30 as stated: every call of add_to_shared_config leaves the entries
\* that were there as they were and returns a key of the object's own
\* class; for an object equal to an entry of its class it returns that
\* entry's key and changes nothing; for any other object it returns a key
\* that was not in the section and adds the object's config under it.
C30_EntriesKept ==
    pc = "migrate" =>
        \A n \in 1..Len(calls) :
            LET call == calls[n]
            IN  /\ \A k \in DOMAIN call.before :
                       /\ k \in DOMAIN call.after
                       /\ call.after[k] = call.before[k]
                /\ call.key.cls = OwnClass(call.new_obj)
                /\ IF SameEntries(call) # {}
                   THEN /\ call.key \in SameEntries(call)
                        /\ call.after = call.before
                   ELSE /\ call.key \notin DOMAIN call.before
                        /\ DOMAIN call.after =
                               (DOMAIN call.before) \cup {call.key}
                        /\ call.after[call.key] = call.new_obj.config

====
